---- MODULE Spec2Model ----
(***************************************************************************)
(* Stage executor of the diagnosis workflow                                *)
(* (src/api/app/services/diagnosis_service.py) together with the batch     *)
(* generation client it calls (src/api/app/services/llm_service.py) and    *)
(* the persisted Case / StageResult rows (src/api/app/models/case.py).     *)
(*                                                                         *)
(* Texts are sequences of tokens.  A result dict of the service is a       *)
(* record of one fixed shape: `keys` is the set of keys the dict holds,    *)
(* `text` the value under the stage's own text key, and the other fields   *)
(* hold the value of the key of the same name (meaningful only when the    *)
(* key is in `keys`).  `summary_of` is a history field: the stage texts    *)
(* the summary prompt was built from.                                      *)
(*                                                                         *)
(* The generation client of the backend                                    *)
(* (src/backend/app/services/llm_service.py) is modelled step by step in   *)
(* `llm`: one call of invoke, generate_with_history, stream_generate or    *)
(* stream_to_sse_events at a time, with the time elapsed since the call    *)
(* started and a history of the attempts and waits it made.  Its chunker   *)
(* and the generator that drives it are modelled in `stream`, texts there  *)
(* being sequences of characters.                                          *)
(*                                                                         *)
(* The SSE transport (src/backend/app/utils/sse.py) and the event          *)
(* generator of the stage stream endpoint                                  *)
(* (src/backend/app/routers/workflow.py) are modelled in `sse`, one use    *)
(* of the transport at a time: a list streamed by stream_sse_events, a     *)
(* stage streamed by the endpoint, or an SSEEventGenerator with the        *)
(* threads that add to its queue and the loop that takes from it.  A       *)
(* formatted event is the sequence of the pieces of its text.              *)
(***************************************************************************)
EXTENDS Integers, Sequences, FiniteSets, TLC

VARIABLES cases, stage_results, ret, last_call, latest, work, llm, stream, sse

executor_vars == <<cases, stage_results, ret, last_call, latest, work>>

vars == <<cases, stage_results, ret, last_call, latest, work, llm, stream, sse>>

(* ---------------------------- bounds ----------------------------------- *)

\* work explored along one behaviour: a process_stage call is charged 3
\* units and an approve_stage call 2
MaxWork == 8

\* settings.LLM_MAX_RETRIES ranges over 0 .. MaxRetries
MaxRetries == 3

\* the timeout of a call ranges over 1 .. MaxTimeout time units
MaxTimeout == 3

\* a provider attempt takes 0 .. MaxDuration time units
MaxDuration == 2

\* a provider increment is a text of at most MaxLen characters
MaxLen == 3

\* chunk_size ranges over 1 .. MaxSize
MaxSize == 3

\* increments the provider delivers in one generation
MaxIncrements == 2

\* lists handed to stream_sse_events, streams of stream_stage and calls of
\* add_event hold up to MaxEvents events
MaxEvents == 3

\* buffer_size ranges over 1 .. MaxCapacity
MaxCapacity == 2

\* heartbeat_interval ranges over 1 .. MaxInterval time units
MaxInterval == 1

\* the clock of the transport runs from 0 to MaxTime
MaxTime == 2

(* ------------------------- static tables ------------------------------- *)

stage_sequence ==
    <<"patient_case_analysis_group", "diagnosis_group", "treatment_planning_group">>

backend_stage_sequence ==
    <<"initial", "extraction", "causal_analysis", "validation", "counterfactual",
      "diagnosis", "treatment_planning", "patient_specific", "final_plan">>

backend_stage_mapping ==
    [g \in {"patient_case_analysis_group", "diagnosis_group", "treatment_planning_group"} |->
        CASE g = "patient_case_analysis_group" ->
                 <<"initial", "extraction", "causal_analysis", "validation">>
          [] g = "diagnosis_group" -> <<"counterfactual", "diagnosis">>
          [] OTHER -> <<"treatment_planning", "patient_specific", "final_plan">>]

Range(seq) == {seq[i] : i \in DOMAIN seq}

Index(seq, x) == CHOOSE i \in DOMAIN seq : seq[i] = x

ConsolidatedNames == Range(stage_sequence)

BackendNames == Range(backend_stage_sequence)

\* a stage name that belongs to neither sequence
UnknownStage == "bogus_stage"

StageNames == BackendNames \cup ConsolidatedNames \cup {UnknownStage}

\* the case that exists, and an id no case has
CaseIds == {"c1"}

MissingCase == "c0"

CallIds == CaseIds \cup {MissingCase}

(* ------------------------------ texts ---------------------------------- *)

\* the affirmative marker validation looks for (a check mark followed by Yes)
Marker == "[check] Yes"

\* a token holding a brace-delimited fragment, as in provider error bodies
BraceToken == "{'error': ...}"

OkText == <<"findings">>

OkYes == <<"findings", Marker>>

\* what invoke / generate_with_history return when the provider raises
ErrPlain == <<"Error generating response", "timed out">>

ErrBrace == <<"Error generating response", BraceToken>>

Responses == {OkText, OkYes, ErrPlain, ErrBrace}

SummaryResponses == {OkText, ErrPlain}

IsError(text) == Len(text) > 0 /\ text[1] = "Error generating response"

Contains(text, token) == \E i \in DOMAIN text : text[i] = token

NoInput == <<>>

Inputs == {NoInput, <<"input">>}

CaseText == <<"case">>

\* Python's `a or b` on strings
OrText(a, b) == IF a # <<>> THEN a ELSE b

\* str.format() on a prompt: a brace-delimited field the call has no
\* argument for raises KeyError
FormatRaises(prompt) == Contains(prompt, BraceToken)

(* --------------------------- result dicts ------------------------------ *)

\* a dict without entries
NoEntries == [t \in {} |-> <<>>]

\* {} and, for the reads of this service, None
EmptyDict ==
    [keys |-> {}, text |-> <<>>, ready |-> FALSE, next_stage |-> "",
     backend_results |-> NoEntries, summary |-> <<>>, summary_of |-> NoEntries,
     error |-> ""]

TextKey(stage_name) ==
    CASE stage_name = "initial" -> "case_text"
      [] stage_name = "extraction" -> "extracted_factors"
      [] stage_name = "causal_analysis" -> "causal_links"
      [] stage_name = "validation" -> "validation_result"
      [] stage_name = "counterfactual" -> "counterfactual_analysis"
      [] stage_name = "diagnosis" -> "diagnosis"
      [] stage_name = "treatment_planning" -> "treatment_plan"
      [] stage_name = "patient_specific" -> "patient_specific_plan"
      [] stage_name = "final_plan" -> "final_treatment_plan"
      [] OTHER -> "none"

\* dict.get(key, '') on a result that may be None
GetText(result, key) == IF key \in result.keys THEN result.text ELSE <<>>

(* ------------------------------ store ---------------------------------- *)

\* stage_results is the table of StageResult rows: for every case_id and
\* stage_name the rows holding that pair, oldest first; a row is
\* [result, is_approved]

EmptyTable == [c \in CallIds |-> [t \in StageNames |-> <<>>]]

\* query(StageResult).filter(case_id, stage_name)
Matching(rows, case_id, stage_name) == rows[case_id][stage_name]

\* .first()
First(rows, case_id, stage_name) == Head(Matching(rows, case_id, stage_name))

\* _save_stage_result without the lookup of the existing row: always adds
_save_stage_result_appending(rows, case_id, stage_name, result) ==
    [rows EXCEPT ![case_id][stage_name] =
                    Append(@, [result |-> result, is_approved |-> FALSE])]

\* _save_stage_result replacing the existing row by a fresh one
_save_stage_result_replacing(rows, case_id, stage_name, result) ==
    [rows EXCEPT ![case_id][stage_name] = <<[result |-> result, is_approved |-> FALSE]>>]

get_stage_result(rows, case_id, stage_name) ==
    IF Matching(rows, case_id, stage_name) = <<>> THEN EmptyDict
    ELSE First(rows, case_id, stage_name).result

_save_stage_result(rows, case_id, stage_name, result) ==
    IF Matching(rows, case_id, stage_name) # <<>>
    THEN [rows EXCEPT ![case_id][stage_name][1].result = result]
    ELSE [rows EXCEPT ![case_id][stage_name] =
                         Append(@, [result |-> result, is_approved |-> FALSE])]

(* ------------------------- static successors --------------------------- *)

\* get_next_stage stepping two places along the backend sequence
get_next_stage_skipping(current_stage) ==
    IF current_stage \in ConsolidatedNames
    THEN IF Index(stage_sequence, current_stage) < Len(stage_sequence)
         THEN stage_sequence[Index(stage_sequence, current_stage) + 1]
         ELSE current_stage
    ELSE IF current_stage \in BackendNames
              /\ Index(backend_stage_sequence, current_stage) + 1 < Len(backend_stage_sequence)
         THEN backend_stage_sequence[Index(backend_stage_sequence, current_stage) + 2]
         ELSE current_stage

get_next_stage(current_stage) ==
    IF current_stage \in ConsolidatedNames
    THEN IF Index(stage_sequence, current_stage) < Len(stage_sequence)
         THEN stage_sequence[Index(stage_sequence, current_stage) + 1]
         ELSE current_stage
    ELSE IF current_stage \in BackendNames
              /\ Index(backend_stage_sequence, current_stage) < Len(backend_stage_sequence)
         THEN backend_stage_sequence[Index(backend_stage_sequence, current_stage) + 1]
         ELSE current_stage

get_consolidated_stage(backend_stage) ==
    IF \E g \in ConsolidatedNames : backend_stage \in Range(backend_stage_mapping[g])
    THEN CHOOSE g \in ConsolidatedNames : backend_stage \in Range(backend_stage_mapping[g])
    ELSE backend_stage

(* ------------------------- backend stages ------------------------------ *)

\* the literals with the one of "extraction" taken from the branch below it
NextStageLiteralSlipped(stage_name) ==
    CASE stage_name = "initial" -> "extraction"
      [] stage_name = "extraction" -> "validation"
      [] stage_name = "causal_analysis" -> "validation"
      [] stage_name = "counterfactual" -> "diagnosis"
      [] stage_name = "diagnosis" -> "treatment_planning"
      [] stage_name = "treatment_planning" -> "patient_specific"
      [] stage_name = "patient_specific" -> "final_plan"
      [] OTHER -> "complete"

\* the 'next_stage' literal of each branch of _process_backend_stage
NextStageLiteral(stage_name) ==
    CASE stage_name = "initial" -> "extraction"
      [] stage_name = "extraction" -> "causal_analysis"
      [] stage_name = "causal_analysis" -> "validation"
      [] stage_name = "counterfactual" -> "diagnosis"
      [] stage_name = "diagnosis" -> "treatment_planning"
      [] stage_name = "treatment_planning" -> "patient_specific"
      [] stage_name = "patient_specific" -> "final_plan"
      [] OTHER -> "complete"

\* readiness read off the word "Yes" alone: any non-error answer passes
ReadyToProceedOnAnyAnswer(response) == ~IsError(response)

\* ready_to_proceed = "<marker>" in response
ReadyToProceed(response) == Contains(response, Marker)

ValidationNext(ready_to_proceed) == IF ready_to_proceed THEN "counterfactual" ELSE "validation"

\* the result dict a backend branch builds from the text it obtained
BackendResult(stage_name, text) ==
    IF stage_name = "validation"
    THEN [EmptyDict EXCEPT !.keys = {"validation_result", "ready", "next_stage"},
                           !.text = text,
                           !.ready = ReadyToProceed(text),
                           !.next_stage = ValidationNext(ReadyToProceed(text))]
    ELSE [EmptyDict EXCEPT !.keys = {TextKey(stage_name), "next_stage"},
                           !.text = text,
                           !.next_stage = NextStageLiteral(stage_name)]

UnknownStageResult == [EmptyDict EXCEPT !.keys = {"error"}, !.error = "Unknown stage"]

\* _process_backend_stage: response is what generate / generate_with_history
\* returned for this stage (a text, or the error message when the provider
\* failed); yields the table after the helper's save and commit, and the result
_process_backend_stage(rows, case_id, stage_name, input_text, response) ==
    IF stage_name \notin BackendNames
    THEN [rows |-> rows, result |-> UnknownStageResult]
    ELSE LET text == IF stage_name = "initial" THEN OrText(input_text, CaseText)
                     ELSE response
             result == BackendResult(stage_name, text)
         IN  [rows |-> _save_stage_result(rows, case_id, stage_name, result),
              result |-> result]

\* the input_text argument process_stage hands to each backend stage of a group
GroupInput(stage_name, input_text) ==
    IF stage_name \in {"initial", "extraction", "diagnosis", "patient_specific"}
    THEN input_text ELSE NoInput

\* the backend stages of a group run one after the other, each saving its
\* result before the next starts
RECURSIVE RunBackendStages(_, _, _, _, _)
RunBackendStages(rows, case_id, stages, input_text, gen) ==
    IF stages = <<>> THEN [rows |-> rows, results |-> NoEntries]
    ELSE LET head == _process_backend_stage(rows, case_id, Head(stages),
                                            GroupInput(Head(stages), input_text),
                                            gen[Head(stages)])
             rest == RunBackendStages(head.rows, case_id, Tail(stages), input_text, gen)
         IN  [rows |-> rest.rows,
              results |-> [t \in {Head(stages)} \cup DOMAIN rest.results |->
                              IF t = Head(stages) /\ t \notin DOMAIN rest.results
                              THEN head.result ELSE rest.results[t]]]

(* ------------------------- prompts of a stage -------------------------- *)

\* the earlier stages whose stored result a backend branch reads with
\* get_stage_result before it asks for its own text
PriorStages(stage_name) ==
    CASE stage_name = "causal_analysis" -> {"extraction"}
      [] stage_name = "validation" -> {"extraction", "causal_analysis"}
      [] stage_name = "counterfactual" -> {"extraction", "causal_analysis", "validation"}
      [] stage_name = "diagnosis" -> {"counterfactual"}
      [] stage_name = "treatment_planning" -> {"diagnosis"}
      [] stage_name = "patient_specific" -> {"diagnosis", "treatment_planning"}
      [] stage_name = "final_plan" -> {"treatment_planning", "patient_specific"}
      [] OTHER -> {}

\* the text a branch takes for one earlier stage: the stored one, with the
\* fallbacks of the branches that have one
PriorText(rows, case_id, stage_name, t, input_text) ==
    LET stored == get_stage_result(rows, case_id, t)
    IN  IF stage_name = "causal_analysis"
        THEN IF TextKey(t) \in stored.keys THEN stored.text ELSE OrText(input_text, <<>>)
        ELSE IF stage_name \in {"diagnosis", "treatment_planning"}
             THEN IF stored.keys # {} THEN GetText(stored, TextKey(t))
                  ELSE OrText(input_text, <<>>)
             ELSE GetText(stored, TextKey(t))

\* the format arguments of the stage's prompt
PromptInputs(rows, case_id, stage_name, input_text) ==
    [t \in PriorStages(stage_name) |-> PriorText(rows, case_id, stage_name, t, input_text)]

\* what the consolidated branch does to the store, one backend stage after
\* the other: the stage, the prompt inputs it read, and the text it saved
RECURSIVE GroupEvents(_, _, _, _, _)
GroupEvents(rows, case_id, stages, input_text, gen) ==
    IF stages = <<>> THEN <<>>
    ELSE LET stage_name == Head(stages)
             given == GroupInput(stage_name, input_text)
             head == _process_backend_stage(rows, case_id, stage_name, given,
                                            gen[stage_name])
         IN  <<[stage |-> stage_name,
                reads |-> PromptInputs(rows, case_id, stage_name, given),
                saved |-> GetText(get_stage_result(head.rows, case_id, stage_name),
                                  TextKey(stage_name))]>>
             \o GroupEvents(head.rows, case_id, Tail(stages), input_text, gen)

(* ----------------------------- summaries ------------------------------- *)

\* the stages whose stored text the group's summary prompt is built from
SummaryStages(group) ==
    CASE group = "patient_case_analysis_group" -> {"extraction", "causal_analysis", "validation"}
      [] group = "diagnosis_group" -> {"counterfactual", "diagnosis"}
      [] OTHER -> {"treatment_planning", "patient_specific", "final_plan"}

SummaryInputs(rows, case_id, group) ==
    [t \in SummaryStages(group) |-> GetText(get_stage_result(rows, case_id, t), TextKey(t))]

\* generate_patient_case_analysis_summary splices the stored texts into the
\* prompt and then hands the whole prompt to generate(), which formats it
\* again; the other two summaries pass the texts as format arguments
SummaryRaises(rows, case_id, group) ==
    /\ group = "patient_case_analysis_group"
    /\ \E t \in SummaryStages(group) : FormatRaises(SummaryInputs(rows, case_id, group)[t])

(* --------------------------- process_stage ----------------------------- *)

\* the 'next_stage' literal of each consolidated branch of process_stage
GroupNextLiteral(group) ==
    CASE group = "patient_case_analysis_group" -> "diagnosis"
      [] group = "diagnosis_group" -> "treatment_planning"
      [] OTHER -> "complete"

\* the flag assigned from the branch taken instead of only set
CompleteAfterAssigned(is_complete, stage_name) == stage_name = "treatment_planning_group"

\* case.is_complete after a consolidated branch ran to its end
CompleteAfter(is_complete, stage_name) ==
    IF stage_name = "treatment_planning_group" THEN TRUE ELSE is_complete

Returned(result) == [raised |-> FALSE, result |-> result]

Raised == [raised |-> TRUE, result |-> EmptyDict]

ErrorDict(message) == [EmptyDict EXCEPT !.keys = {"error"}, !.error = message]

GenOf(gen, stage_name) == IF stage_name \in DOMAIN gen THEN gen[stage_name] ELSE <<>>

\* consolidated branch: every backend stage of the group, then the summary
ProcessGroup(cs, rows, case_id, stage_name, input_text, gen, summary_response) ==
    LET run == RunBackendStages(rows, case_id, backend_stage_mapping[stage_name],
                                input_text, gen)
        result == [EmptyDict EXCEPT
                     !.keys = {"backend_results", "summary", "next_stage"},
                     !.backend_results = run.results,
                     !.summary = summary_response,
                     !.summary_of = SummaryInputs(run.rows, case_id, stage_name),
                     !.next_stage = GroupNextLiteral(stage_name)]
    IN  IF SummaryRaises(run.rows, case_id, stage_name)
        THEN [cases |-> cs, rows |-> run.rows, ret |-> Raised]
        ELSE [cases |-> [cs EXCEPT ![case_id].is_complete = CompleteAfter(@, stage_name),
                                   ![case_id].current_stage = stage_name],
              rows |-> _save_stage_result(run.rows, case_id, stage_name, result),
              ret |-> Returned(result)]

\* the consolidated result rewritten after one of its backend stages ran
Rollup(rows, case_id, consolidated_stage, stage_name, result, summary_response) ==
    LET existing == get_stage_result(rows, case_id, consolidated_stage)
        entries == IF "backend_results" \in existing.keys
                   THEN existing.backend_results ELSE NoEntries
    IN  [existing EXCEPT
           !.keys = @ \cup {"backend_results", "summary", "next_stage"},
           !.backend_results = [t \in DOMAIN entries \cup {stage_name} |->
                                   IF t = stage_name THEN result ELSE entries[t]],
           !.summary = summary_response,
           !.summary_of = SummaryInputs(rows, case_id, consolidated_stage),
           !.next_stage = get_next_stage(consolidated_stage)]

\* the other branch: the named stage itself, then its group's rollup
ProcessBackend(cs, rows, case_id, stage_name, input_text, gen, summary_response) ==
    LET own == _process_backend_stage(rows, case_id, stage_name, input_text,
                                      GenOf(gen, stage_name))
        consolidated_stage == get_consolidated_stage(stage_name)
        rolled == IF consolidated_stage # stage_name
                  THEN _save_stage_result(own.rows, case_id, consolidated_stage,
                           Rollup(own.rows, case_id, consolidated_stage, stage_name,
                                  own.result, summary_response))
                  ELSE own.rows
    IN  IF consolidated_stage # stage_name /\ SummaryRaises(own.rows, case_id, consolidated_stage)
        THEN [cases |-> cs, rows |-> own.rows, ret |-> Raised]
        ELSE [cases |-> [cs EXCEPT ![case_id].current_stage = stage_name],
              rows |-> _save_stage_result(rolled, case_id, stage_name, own.result),
              ret |-> Returned(own.result)]

process_stage(cs, rows, case_id, stage_name, input_text, gen, summary_response) ==
    IF case_id \notin DOMAIN cs
    THEN [cases |-> cs, rows |-> rows, ret |-> Returned(ErrorDict("Case not found"))]
    ELSE IF stage_name \in ConsolidatedNames
         THEN ProcessGroup(cs, rows, case_id, stage_name, input_text, gen, summary_response)
         ELSE ProcessBackend(cs, rows, case_id, stage_name, input_text, gen, summary_response)

(* --------------------------- approve_stage ----------------------------- *)

ApprovedDict(next_stage) ==
    [EmptyDict EXCEPT !.keys = {"stage_name", "is_approved", "next_stage", "message"},
                      !.next_stage = next_stage]

\* stage_result.is_approved = True on the row .first() returned
MarkApproved(rows, case_id, stage_name) ==
    [rows EXCEPT ![case_id][stage_name][1].is_approved = TRUE]

approve_stage(cs, rows, case_id, stage_name) ==
    IF case_id \notin DOMAIN cs
    THEN [cases |-> cs, rows |-> rows, ret |-> Returned(ErrorDict("Case not found"))]
    ELSE IF Matching(rows, case_id, stage_name) = <<>>
         THEN [cases |-> cs, rows |-> rows,
               ret |-> Returned(ErrorDict("Stage result not found"))]
         ELSE [cases |-> [cs EXCEPT ![case_id].current_stage = get_next_stage(stage_name)],
               rows |-> MarkApproved(rows, case_id, stage_name),
               ret |-> Returned(ApprovedDict(get_next_stage(stage_name)))]

(* ------------------------------ inputs --------------------------------- *)

\* the stages of one call that ask the provider for a text
GeneratingStages(stage_name) ==
    IF stage_name \in ConsolidatedNames
    THEN Range(backend_stage_mapping[stage_name]) \ {"initial"}
    ELSE IF stage_name \in BackendNames \ {"initial"} THEN {stage_name} ELSE {}

\* what the provider answers to the backend generations of one call
GenChoices(stage_name) ==
    {[t \in GeneratingStages(stage_name) |-> r] : r \in Responses}

\* every name is tried on the existing case, one on the missing one
StageChoices(case_id) == IF case_id = MissingCase THEN {"initial"} ELSE StageNames

\* input_text reaches the stored state only through the initial stage
InputChoices(stage_name) ==
    IF stage_name \in {"initial", "patient_case_analysis_group"} THEN Inputs ELSE {NoInput}

\* the group summary is generated only for a name that has a group
SummaryChoices(stage_name) ==
    IF stage_name = UnknownStage THEN {OkText} ELSE SummaryResponses

(* ------------------------- history of runs ----------------------------- *)

\* latest[case_id][stage_name]: how many runs produced a payload for the
\* pair, and the text the most recent of them produced (a backend stage's
\* own text, a group's summary); kept beside the table, never read by the
\* service
NoRun == [runs |-> 0, text |-> <<>>]

\* the backend stages one process_stage call runs
StagesRun(stage_name) ==
    IF stage_name \in ConsolidatedNames THEN Range(backend_stage_mapping[stage_name])
    ELSE IF stage_name \in BackendNames THEN {stage_name} ELSE {}

\* the group whose result the call writes when it runs to its end
GroupWritten(stage_name) ==
    IF stage_name \in ConsolidatedNames THEN {stage_name}
    ELSE IF stage_name \in BackendNames THEN {get_consolidated_stage(stage_name)} ELSE {}

ProducedText(t, input_text, gen, summary_response) ==
    IF t = "initial" THEN OrText(input_text, CaseText)
    ELSE IF t \in BackendNames THEN GenOf(gen, t)
    ELSE summary_response

LatestAfter(old, raised, case_id, stage_name, input_text, gen, summary_response) ==
    IF case_id \notin CaseIds THEN old
    ELSE [old EXCEPT ![case_id] =
            [t \in StageNames |->
               IF t \in StagesRun(stage_name) \/ (~raised /\ t \in GroupWritten(stage_name))
               THEN [runs |-> old[case_id][t].runs + 1,
                     text |-> ProducedText(t, input_text, gen, summary_response)]
               ELSE old[case_id][t]]]

(* ------------------------ generation client ---------------------------- *)

Retries == 0..MaxRetries

Timeouts == 1..MaxTimeout

Durations == 0..MaxDuration

Ops == {"invoke", "generate_with_history", "stream_generate", "stream_to_sse_events"}

StreamOps == {"stream_generate", "stream_to_sse_events"}

\* the provider as one call meets it: its first `fails` attempts raise (every
\* attempt of the call when fails > max_retries), and a streamed attempt that
\* raises would deliver `partial` increments first
Providers == [fails : 0..(MaxRetries + 1), partial : 0..1]

\* no call yet
LlmIdle ==
    [op |-> "none", pc |-> "idle", max_retries |-> 0, timeout |-> 1,
     provider |-> [fails |-> 0, partial |-> 0], attempt |-> 0, elapsed |-> 0,
     outcome |-> "none", yielded |-> <<>>, events |-> <<>>, log |-> <<>>]

\* wait_time = attempt * 2
WaitTimeLinear(attempt) == attempt * 2

\* wait_time = 2 ** attempt
WaitTime(attempt) == 2 ^ attempt

\* time.time() - start_time > timeout
TimedOut(c) == c.elapsed > c.timeout

Logged(c, what, n) == [c EXCEPT !.log = Append(@, [what |-> what, n |-> n])]

Finished(c, outcome) == [c EXCEPT !.pc = "done", !.outcome = outcome]

\* self.llm.invoke(...) taking d time units, and the handling of what it
\* returns or raises
ProviderCall(c, d) ==
    LET after == [Logged(c, "attempt", c.attempt) EXCEPT !.elapsed = @ + d]
    IN  IF c.attempt >= c.provider.fails THEN Finished(after, "content")
        ELSE IF c.attempt = c.max_retries THEN Finished(after, "error")
        ELSE [after EXCEPT !.pc = "sleep"]

\* the sleep between two iterations, and the loop's step to the next attempt
Backoff(c) ==
    [Logged(c, "wait", WaitTime(c.attempt)) EXCEPT
       !.elapsed = @ + WaitTime(c.attempt), !.attempt = @ + 1, !.pc = "loop"]

\* what one iteration of stream_generate raises: the timeout found before the
\* attempt, or else the TypeError of asyncio.create_task, which is handed the
\* async generator object of _stream_with_chunking where it needs a coroutine
\* (the provider is not contacted and nothing is yielded)
StreamException(c) == IF TimedOut(c) THEN "TimeoutError" ELSE "TypeError"

\* the except clause of stream_generate; for stream_to_sse_events the
\* exception that leaves stream_generate becomes the error event
StreamRaise(c) ==
    LET logged == IF TimedOut(c) THEN Logged(c, "timeout", c.attempt)
                  ELSE Logged(c, "task", c.attempt)
    IN  IF c.attempt = c.max_retries
        THEN IF c.op = "stream_to_sse_events"
             THEN [Finished(logged, "finished") EXCEPT !.events = Append(@, "error")]
             ELSE Finished(logged, StreamException(c))
        ELSE [logged EXCEPT !.pc = "sleep"]

\* a call is made
StartCall ==
    /\ llm.pc \in {"idle", "done"}
    /\ \E op \in Ops, max_retries \in Retries, timeout \in Timeouts, provider \in Providers :
         llm' = [LlmIdle EXCEPT
                   !.op = op, !.pc = "loop", !.max_retries = max_retries,
                   !.timeout = timeout, !.provider = provider,
                   !.events = IF op = "stream_to_sse_events" THEN <<"start">> ELSE <<>>]
    /\ UNCHANGED <<executor_vars, stream, sse>>

\* one iteration of the loop of invoke, up to its return or its sleep
InvokeAttempt ==
    /\ llm.op = "invoke"
    /\ llm.pc = "loop"
    /\ IF TimedOut(llm)
       THEN llm' = Finished(Logged(llm, "timeout", llm.attempt), "timeout_error")
       ELSE \E d \in Durations : llm' = ProviderCall(llm, d)
    /\ UNCHANGED <<executor_vars, stream, sse>>

\* time.sleep(wait_time)
InvokeSleep ==
    /\ llm.op = "invoke"
    /\ llm.pc = "sleep"
    /\ llm' = Backoff(llm)
    /\ UNCHANGED <<executor_vars, stream, sse>>

\* generate_with_history: the one provider call and its except clause
HistoryAttempt ==
    /\ llm.op = "generate_with_history"
    /\ llm.pc = "loop"
    /\ \E d \in Durations :
         llm' = Finished([Logged(llm, "attempt", llm.attempt) EXCEPT !.elapsed = @ + d],
                         IF llm.provider.fails = 0 THEN "content" ELSE "error")
    /\ UNCHANGED <<executor_vars, stream, sse>>

\* one iteration of the loop of stream_generate, up to its raise or its sleep
StreamAttempt ==
    /\ llm.op \in StreamOps
    /\ llm.pc = "loop"
    /\ llm' = StreamRaise(llm)
    /\ UNCHANGED <<executor_vars, stream, sse>>

\* await asyncio.sleep(wait_time)
StreamSleep ==
    /\ llm.op \in StreamOps
    /\ llm.pc = "sleep"
    /\ llm' = Backoff(llm)
    /\ UNCHANGED <<executor_vars, stream, sse>>

\* the batch call a backend branch of the stage executor makes: with chat
\* history the messages go to generate_with_history, without to generate,
\* which is invoke on the formatted prompt
GenerationPath(chat_history) ==
    IF chat_history THEN "generate_with_history" ELSE "invoke"

LlmNext ==
    StartCall \/ InvokeAttempt \/ InvokeSleep \/ HistoryAttempt \/ StreamAttempt \/ StreamSleep

(* ------------------------------ chunker -------------------------------- *)

\* a letter, the space, the newline
Chars == {"a", " ", "\n"}

\* what str.lstrip() removes
Whitespace == {" ", "\n"}

Fragments == UNION {[1..k -> Chars] : k \in 0..MaxLen}

ChunkSizes == 1..MaxSize

\* one call with a whole sentence and room to spare: "Patient is stable"
Scenario ==
    [text |-> <<"P", "a", "t", "i", "e", "n", "t", " ", "i", "s", " ",
                "s", "t", "a", "b", "l", "e">>,
     max_size |-> 100]

\* text.split(' ')
RECURSIVE Split(_)
Split(text) ==
    IF \A i \in DOMAIN text : text[i] # " " THEN <<text>>
    ELSE LET i == CHOOSE j \in DOMAIN text :
                    text[j] = " " /\ \A k \in 1..(j - 1) : text[k] # " "
         IN  <<SubSeq(text, 1, i - 1)>> \o Split(SubSeq(text, i + 1, Len(text)))

\* str.lstrip()
RECURSIVE LStrip(_)
LStrip(text) ==
    IF text # <<>> /\ Head(text) \in Whitespace THEN LStrip(Tail(text)) ELSE text

\* str.endswith(ch)
EndsWith(text, ch) == text # <<>> /\ text[Len(text)] = ch

\* a StreamChunk whose length counts a terminator after the content
StreamChunkWithTerminator(content, position, is_word_boundary, upto) ==
    [content |-> content, position |-> position, length |-> Len(content) + 1,
     is_word_boundary |-> is_word_boundary, upto |-> upto]

\* a StreamChunk; `upto` is a history field: how many characters of the text
\* being chunked had been taken when the chunk was cut
StreamChunk(content, position, is_word_boundary, upto) ==
    [content |-> content, position |-> position, length |-> Len(content),
     is_word_boundary |-> is_word_boundary, upto |-> upto]

\* the loop of _create_word_chunks from word i on, and the chunk of what remains
RECURSIVE ChunkWords(_, _, _, _, _, _, _)
ChunkWords(words, i, max_size, position, current_chunk, taken, chunks) ==
    IF i > Len(words)
    THEN IF current_chunk # <<>>
         THEN Append(chunks, StreamChunk(current_chunk, position, TRUE, taken))
         ELSE chunks
    ELSE LET word_with_space == IF i = 1 THEN words[i] ELSE <<" ">> \o words[i]
         IN  IF Len(current_chunk \o word_with_space) > max_size /\ current_chunk # <<>>
             THEN ChunkWords(words, i + 1, max_size, position + Len(current_chunk),
                             LStrip(word_with_space), taken + Len(word_with_space),
                             Append(chunks,
                                    StreamChunk(current_chunk, position,
                                                EndsWith(current_chunk, " ")
                                                  \/ EndsWith(current_chunk, "\n"),
                                                taken)))
             ELSE ChunkWords(words, i + 1, max_size, position,
                             current_chunk \o word_with_space,
                             taken + Len(word_with_space), chunks)

_create_word_chunks(text, max_size, start_position) ==
    IF text = <<>> THEN <<>>
    ELSE ChunkWords(Split(text), 1, max_size, start_position, <<>>, 0, <<>>)

\* the increments tried with a chunk size: every fragment with the small
\* sizes, the scenario's text with the scenario's size
ContentsFor(chunk_size) ==
    IF chunk_size = Scenario.max_size THEN {Scenario.text} ELSE Fragments

\* where a yielded chunk lies: what the consumer keeps of the chunk before
Extent(chunk) == [position |-> chunk.position, length |-> chunk.length]

\* the generator _stream_with_chunking before it is started
StreamIdle ==
    [pc |-> "idle", chunk_size |-> 1, position |-> 0, increments |-> 0,
     new_content |-> <<>>, chunks |-> <<>>, pending |-> <<>>, yielded |-> 0,
     last |-> [position |-> 0, length |-> 0]]

\* position counting the chunks yielded
AdvanceByOne(position, chunk) == position + 1

\* position += chunk.length
Advance(position, chunk) == position + chunk.length

\* the generator is started for a new generation
StartStream ==
    /\ stream.pc = "idle" \/ (stream.pending = <<>> /\ stream.increments > 0)
    /\ \E chunk_size \in ChunkSizes \cup {Scenario.max_size} :
         stream' = [StreamIdle EXCEPT !.pc = "streaming", !.chunk_size = chunk_size]
    /\ UNCHANGED <<executor_vars, llm, sse>>

\* the provider delivers the next response_chunk, and it is cut into chunks
ProviderIncrement ==
    /\ stream.pc = "streaming"
    /\ stream.pending = <<>>
    /\ stream.increments < MaxIncrements
    /\ \E new_content \in ContentsFor(stream.chunk_size) :
         LET chunks == _create_word_chunks(new_content, stream.chunk_size, stream.position)
         IN  stream' = [stream EXCEPT !.increments = @ + 1, !.new_content = new_content,
                                      !.chunks = chunks, !.pending = chunks]
    /\ UNCHANGED <<executor_vars, llm, sse>>

\* yield chunk, and the statement after it
YieldChunk ==
    /\ stream.pc = "streaming"
    /\ stream.pending # <<>>
    /\ stream' = [stream EXCEPT !.last = Extent(Head(stream.pending)),
                                !.yielded = @ + 1,
                                !.position = Advance(@, Head(stream.pending)),
                                !.pending = Tail(@)]
    /\ UNCHANGED <<executor_vars, llm, sse>>

ChunkNext == StartStream \/ ProviderIncrement \/ YieldChunk

(* ---------------------------- SSE transport ---------------------------- *)

\* the tags validate_sse_event accepts (SSEEventType)
valid_types ==
    {"chunk", "start", "end", "error", "metadata", "heartbeat", "progress",
     "stage_complete"}

\* a tag that is none of them
UnknownType == "custom"

EventTypes == valid_types \cup {UnknownType}

\* payloads: a small dict, a dict of more than 50000 characters, and a dict
\* holding an object json.dumps rejects
Payloads == {"content", "large content", "object"}

\* an Optional value: <<>> is None and <<v>> is v
None == <<>>

Ids == {None, <<"">>, <<"e1">>}

RetryHints == {None, <<0>>, <<5000>>}

SSEEvent(event_type, data, id, retry) ==
    [event_type |-> event_type, data |-> data, id |-> id, retry |-> retry]

\* create_sse_event without event_id: the id is generated from the type, the
\* time and a random suffix
create_sse_event(event_type, data) == SSEEvent(event_type, data, <<"auto">>, None)

\* json.dumps raises TypeError
JsonRaises(data) == data = "object"

\* json.dumps(data)
JsonDumps(data) == <<"{", data, "}">>

\* len(json.dumps(event.data)) > 50000
LargePayload(data) == data = "large content"

\* `if event.id:` is false for None and for the empty string
Truthy(id) == id # None /\ id[1] # ""

\* "\n".join(lines)
RECURSIVE JoinLines(_)
JoinLines(lines) ==
    IF lines = <<>> THEN <<>>
    ELSE IF Len(lines) = 1 THEN lines[1]
    ELSE lines[1] \o <<"\n">> \o JoinLines(Tail(lines))

\* format_sse_data ending the text with one newline
format_sse_data_single_newline(event) ==
    [raised |-> JsonRaises(event.data),
     text |-> IF JsonRaises(event.data) THEN <<>>
              ELSE JoinLines(<<<<"event: ", event.event_type>>>>
                             \o (IF Truthy(event.id) THEN <<<<"id: ", event.id[1]>>>> ELSE <<>>)
                             \o (IF event.retry # None
                                 THEN <<<<"retry: ", ToString(event.retry[1])>>>> ELSE <<>>)
                             \o <<<<"data: ">> \o JsonDumps(event.data)>>
                             \o << <<>> >>)]

\* format_sse_data: the text, or SSEError raised for a payload json rejects
format_sse_data(event) ==
    [raised |-> JsonRaises(event.data),
     text |-> IF JsonRaises(event.data) THEN <<>>
              ELSE JoinLines(<<<<"event: ", event.event_type>>>>
                             \o (IF Truthy(event.id) THEN <<<<"id: ", event.id[1]>>>> ELSE <<>>)
                             \o (IF event.retry # None
                                 THEN <<<<"retry: ", ToString(event.retry[1])>>>> ELSE <<>>)
                             \o <<<<"data: ">> \o JsonDumps(event.data)>>
                             \o << <<>>, <<>> >>)]

\* validate_sse_event turning away a payload over the warning threshold
validate_sse_event_rejecting_large(event) ==
    /\ event.event_type \in valid_types
    /\ ~JsonRaises(event.data)
    /\ ~LargePayload(event.data)

\* validate_sse_event; a large payload is logged and accepted
validate_sse_event(event) ==
    /\ event.event_type \in valid_types
    /\ ~JsonRaises(event.data)

\* the events handed to stream_sse_events and those stream_stage yields
ListEvents ==
    {SSEEvent(t, "content", <<"e1">>, None) : t \in EventTypes}
      \cup {SSEEvent("chunk", d, <<"e1">>, None) : d \in Payloads}
      \cup {SSEEvent(UnknownType, "object", <<"e1">>, None)}
      \cup {SSEEvent("chunk", "content", i, r) : i \in Ids, r \in RetryHints}

ListOps == {"stream_sse_events", "event_generator"}

\* the placeholder of a thread that holds no event
NoEvent == SSEEvent("", "", None, None)

Threads == {"A", "B"}

\* a use of the transport before it starts; for stream_events the fields
\* from buffer_size on are the SSEEventGenerator and the threads around it,
\* `added`, `taken`, `discarded` and `lost` being history fields: the events
\* passed to add_event, those stream_events got from the queue, those
\* add_event removed from the queue, and those add_event gave up on
SseIdle ==
    [op |-> "none", pc |-> "idle", events |-> <<>>, out |-> <<>>, log |-> <<>>,
     buffer_size |-> 1, heartbeat_interval |-> 1, is_active |-> FALSE,
     queue |-> <<>>, last_heartbeat |-> 0, now |-> 0, emitted_at |-> None,
     consumer |-> "off",
     producer |-> [p \in Threads |-> [pc |-> "idle", event |-> NoEvent]],
     callers |-> {}, added |-> <<>>, taken |-> <<>>, discarded |-> <<>>,
     lost |-> <<>>]

(* stream_sse_events and the endpoint's event_generator *)

\* one of the two list streams is started
StartListStream ==
    /\ sse.pc = "idle"
    /\ \E op \in ListOps : sse' = [SseIdle EXCEPT !.op = op, !.pc = "running"]
    /\ UNCHANGED <<executor_vars, llm, stream>>

\* stream_sse_events: one pass of `for event in events`
StreamSseEventsStep ==
    /\ sse.op = "stream_sse_events"
    /\ sse.pc = "running"
    /\ Len(sse.events) < MaxEvents
    /\ \E event \in ListEvents :
         sse' = IF validate_sse_event(event)
                THEN [sse EXCEPT !.events = Append(@, event),
                                 !.out = Append(@, format_sse_data(event).text)]
                ELSE [sse EXCEPT !.events = Append(@, event),
                                 !.log = Append(@, "Skipping invalid SSE event")]
    /\ UNCHANGED <<executor_vars, llm, stream>>

\* event_generator: one pass of `async for sse_event in stream_stage(...)`,
\* and the except clause when formatting raises
EventGeneratorStep ==
    /\ sse.op = "event_generator"
    /\ sse.pc = "running"
    /\ Len(sse.events) < MaxEvents
    /\ \E event \in ListEvents :
         sse' = IF format_sse_data(event).raised
                THEN [sse EXCEPT
                        !.events = Append(@, event),
                        !.log = Append(@, "Error in stage streaming"),
                        !.out = Append(@, format_sse_data(
                                            create_sse_event("error", "message")).text),
                        !.pc = "done"]
                ELSE [sse EXCEPT !.events = Append(@, event),
                                 !.out = Append(@, format_sse_data(event).text)]
    /\ UNCHANGED <<executor_vars, llm, stream>>

\* the list, or the stage's stream, has no more events
SourceExhausted ==
    /\ sse.op \in ListOps
    /\ sse.pc = "running"
    /\ sse' = [sse EXCEPT !.pc = "done"]
    /\ UNCHANGED <<executor_vars, llm, stream>>

(* SSEEventGenerator *)

Capacities == 1..MaxCapacity

Intervals == 1..MaxInterval

\* the n-th event passed to add_event: a valid one or one of unknown type
AddChoices(n) ==
    {SSEEvent(event_type, "content", <<ToString(n)>>, None) :
       event_type \in {"chunk", UnknownType}}

\* SSEEventGenerator(buffer_size, heartbeat_interval)
Construct ==
    /\ sse.pc = "idle"
    /\ \E buffer_size \in Capacities, heartbeat_interval \in Intervals :
         sse' = [SseIdle EXCEPT !.op = "stream_events", !.pc = "running",
                                !.buffer_size = buffer_size,
                                !.heartbeat_interval = heartbeat_interval]
    /\ UNCHANGED <<executor_vars, llm, stream>>

\* start(), and stream_events() begins to be iterated
Start ==
    /\ sse.op = "stream_events"
    /\ sse.consumer = "off"
    /\ sse' = [sse EXCEPT !.is_active = TRUE, !.consumer = "top"]
    /\ UNCHANGED <<executor_vars, llm, stream>>

\* stop()
Stop ==
    /\ sse.op = "stream_events"
    /\ sse.is_active
    /\ sse' = [sse EXCEPT !.is_active = FALSE]
    /\ UNCHANGED <<executor_vars, llm, stream>>

\* Queue.put_nowait raises Full
Full(g) == Len(g.queue) >= g.buffer_size

\* add_event up to the first put_nowait, which enqueues or raises Full
AddEvent(p) ==
    /\ sse.op = "stream_events"
    /\ sse.producer[p].pc = "idle"
    /\ Len(sse.added) < MaxEvents
    /\ \E event \in AddChoices(Len(sse.added) + 1) :
         sse' = IF Full(sse)
                THEN [sse EXCEPT !.added = Append(@, event),
                                 !.callers = @ \cup {p},
                                 !.producer[p] = [pc |-> "full", event |-> event]]
                ELSE [sse EXCEPT !.added = Append(@, event),
                                 !.callers = @ \cup {p},
                                 !.queue = Append(@, event)]
    /\ UNCHANGED <<executor_vars, llm, stream>>

\* the event get_nowait returns
Evicted(queue) == Head(queue)

\* the queue giving up its newest event
RestNewest(queue) == SubSeq(queue, 1, Len(queue) - 1)

\* the queue after get_nowait
Rest(queue) == Tail(queue)

\* add_event's handler of Full: get_nowait, which removes the oldest event
\* or raises Empty into the bare except
Evict(p) ==
    /\ sse.producer[p].pc = "full"
    /\ sse' = IF sse.queue = <<>>
              THEN [sse EXCEPT !.lost = Append(@, sse.producer[p].event),
                               !.log = Append(@, "Failed to add event to SSE buffer"),
                               !.producer[p] = [pc |-> "idle", event |-> NoEvent]]
              ELSE [sse EXCEPT !.discarded = Append(@, Evicted(sse.queue)),
                               !.queue = Rest(@),
                               !.producer[p].pc = "evicted"]
    /\ UNCHANGED <<executor_vars, llm, stream>>

\* the second put_nowait, which enqueues or raises Full into the bare except
Requeue(p) ==
    /\ sse.producer[p].pc = "evicted"
    /\ sse' = IF Full(sse)
              THEN [sse EXCEPT !.lost = Append(@, sse.producer[p].event),
                               !.log = Append(@, "Failed to add event to SSE buffer"),
                               !.producer[p] = [pc |-> "idle", event |-> NoEvent]]
              ELSE [sse EXCEPT !.queue = Append(@, sse.producer[p].event),
                               !.log = Append(@, "SSE event buffer overflow, dropped oldest event"),
                               !.producer[p] = [pc |-> "idle", event |-> NoEvent]]
    /\ UNCHANGED <<executor_vars, llm, stream>>

\* the heartbeat test with >= for >
HeartbeatDueAtInterval(current_time, last_heartbeat, heartbeat_interval) ==
    current_time - last_heartbeat >= heartbeat_interval

\* current_time - self._last_heartbeat > self.heartbeat_interval
HeartbeatDue(current_time, last_heartbeat, heartbeat_interval) ==
    current_time - last_heartbeat > heartbeat_interval

\* the rest of a pass of the loop of stream_events: the heartbeat when it is
\* due, then the sleep, during which `elapsed` time units go by
EndOfPass(g, elapsed) ==
    LET due == HeartbeatDue(g.now, g.last_heartbeat, g.heartbeat_interval)
    IN  [g EXCEPT
           !.out = IF due
                   THEN Append(@, format_sse_data(
                                    create_sse_event("heartbeat", "timestamp")).text)
                   ELSE @,
           !.last_heartbeat = IF due THEN g.now ELSE @,
           !.now = @ + elapsed,
           !.consumer = "top"]

\* the time that goes by until the next pass
Elapses == {elapsed \in 0..1 : sse.now + elapsed <= MaxTime}

\* `while self.is_active` and the test of empty(): the pass ends here when
\* the queue is empty, the loop when the generator was stopped
Poll ==
    /\ sse.op = "stream_events"
    /\ sse.consumer = "top"
    /\ \/ /\ ~sse.is_active
          /\ sse' = [sse EXCEPT !.consumer = "ended"]
       \/ /\ sse.is_active
          /\ sse.queue = <<>>
          /\ \E elapsed \in Elapses : sse' = EndOfPass(sse, elapsed)
       \/ /\ sse.is_active
          /\ sse.queue # <<>>
          /\ sse' = [sse EXCEPT !.consumer = "take"]
    /\ UNCHANGED <<executor_vars, llm, stream>>

\* get_nowait and the rest of the pass; Empty, raised when another thread
\* emptied the queue since the test, goes to the except clause, which yields
\* an error event and leaves the loop
Take ==
    /\ sse.op = "stream_events"
    /\ sse.consumer = "take"
    /\ IF sse.queue = <<>>
       THEN sse' = [sse EXCEPT
                      !.log = Append(@, "Error in SSE event stream"),
                      !.out = Append(@, format_sse_data(
                                          create_sse_event("error", "STREAM_ERROR")).text),
                      !.consumer = "ended"]
       ELSE LET event == Head(sse.queue)
                got == [sse EXCEPT !.queue = Tail(@), !.taken = Append(@, event)]
                yielded == IF validate_sse_event(event)
                           THEN [got EXCEPT !.out = Append(@, format_sse_data(event).text),
                                            !.emitted_at = <<sse.now>>]
                           ELSE got
            IN  \E elapsed \in Elapses : sse' = EndOfPass(yielded, elapsed)
    /\ UNCHANGED <<executor_vars, llm, stream>>

SseNext ==
    \/ StartListStream \/ StreamSseEventsStep \/ EventGeneratorStep \/ SourceExhausted
    \/ Construct \/ Start \/ Stop
    \/ \E p \in Threads : AddEvent(p) \/ Evict(p) \/ Requeue(p)
    \/ Poll \/ Take

(* --------------------------- specification ----------------------------- *)

NoCall ==
    [op |-> "none", case_id |-> "", stage_name |-> "", input_text |-> NoInput,
     gen |-> NoEntries, summary_response |-> <<>>]

\* a case as routers/cases.py creates it, and no stage results
Init ==
    /\ cases = [c \in CaseIds |-> [current_stage |-> "initial", is_complete |-> FALSE]]
    /\ stage_results = EmptyTable
    /\ ret = Returned(EmptyDict)
    /\ last_call = NoCall
    /\ latest = [c \in CallIds |-> [t \in StageNames |-> NoRun]]
    /\ work = 0
    /\ llm = LlmIdle
    /\ stream = StreamIdle
    /\ sse = SseIdle

ProcessStage ==
    \E case_id \in CallIds : \E stage_name \in StageChoices(case_id) :
      \E input_text \in InputChoices(stage_name), gen \in GenChoices(stage_name),
         summary_response \in SummaryChoices(stage_name) :
        /\ work + 3 <= MaxWork
        /\ LET out == process_stage(cases, stage_results, case_id, stage_name,
                                    input_text, gen, summary_response)
           IN  /\ cases' = out.cases
               /\ stage_results' = out.rows
               /\ ret' = out.ret
               /\ latest' = LatestAfter(latest, out.ret.raised, case_id, stage_name,
                                        input_text, gen, summary_response)
        /\ last_call' = [op |-> "process", case_id |-> case_id, stage_name |-> stage_name,
                         input_text |-> input_text, gen |-> gen,
                         summary_response |-> summary_response]
        /\ work' = work + 3
        /\ UNCHANGED <<llm, stream, sse>>

ApproveStage ==
    \E case_id \in CallIds : \E stage_name \in StageChoices(case_id) :
        /\ work + 2 <= MaxWork
        /\ LET out == approve_stage(cases, stage_results, case_id, stage_name)
           IN  /\ cases' = out.cases
               /\ stage_results' = out.rows
               /\ ret' = out.ret
        /\ last_call' = [NoCall EXCEPT !.op = "approve", !.case_id = case_id,
                                       !.stage_name = stage_name]
        /\ UNCHANGED latest
        /\ work' = work + 2
        /\ UNCHANGED <<llm, stream, sse>>

Next == ProcessStage \/ ApproveStage

Spec == Init /\ [][Next]_vars

LlmSpec == Init /\ [][LlmNext]_vars

ChunkSpec == Init /\ [][ChunkNext]_vars

SseSpec == Init /\ [][SseNext]_vars

(* ------------------------------ claims --------------------------------- *)

\* place of a name on a sequence; "complete" lies just past its end
Place(seq, name) == IF name = "complete" THEN Len(seq) + 1 ELSE Index(seq, name)

OnSequence(seq, name) == name \in Range(seq) \cup {"complete"}

SequenceOf(name) == IF name \in BackendNames THEN backend_stage_sequence ELSE stage_sequence

Sequenced == BackendNames \cup ConsolidatedNames

\* the most recent call was an approve_stage that approved its stage
ApproveSucceeded == last_call.op = "approve" /\ "is_approved" \in ret.result.keys

\* the most recent call was a process_stage on the existing case
Processed == last_call.op = "process" /\ last_call.case_id \in CaseIds

Rows(case_id, stage_name) == stage_results[case_id][stage_name]

HasRow(case_id, stage_name) == Rows(case_id, stage_name) # <<>>

RowResult(case_id, stage_name) == Rows(case_id, stage_name)[1].result

\* no stored text is one the summary prompt cannot be formatted with: no
\* earlier call on the case can have raised
AllTextsFormattable(c) ==
    \A t \in BackendNames : HasRow(c, t) => ~FormatRaises(RowResult(c, t).text)

\* C1 as stated: an approve_stage call leaves current_stage where it was or one
\* step further along the sequence it was on, never earlier and never further
\* (looked at on cases none of whose earlier calls raised).
ApproveNeverRegressesOrSkips ==
    [][\A c \in CaseIds :
         ( /\ AllTextsFormattable(c)
           /\ last_call'.op = "approve"
           /\ last_call'.case_id = c
           /\ "is_approved" \in ret'.result.keys
           /\ cases[c].current_stage \in Sequenced
           /\ OnSequence(SequenceOf(cases[c].current_stage), cases'[c].current_stage) )
         => LET seq == SequenceOf(cases[c].current_stage)
            IN  Place(seq, cases'[c].current_stage) - Place(seq, cases[c].current_stage)
                  \in {0, 1}]_vars

\* C1 amended: after approve_stage(case_id, stage_name) approved a stage of
\* either sequence, current_stage lies on that stage's own sequence, never
\* earlier than the approved stage and never more than one step after it,
\* whatever current_stage was before the call.
ApproveAdvancesFromApprovedName ==
    \A c \in CaseIds :
      ( /\ ApproveSucceeded
        /\ last_call.case_id = c
        /\ last_call.stage_name \in Sequenced )
      => LET seq == SequenceOf(last_call.stage_name)
         IN  /\ OnSequence(seq, cases[c].current_stage)
             /\ Place(seq, cases[c].current_stage) - Place(seq, last_call.stage_name)
                  \in {0, 1}

\* C1 witness: approving "initial" took the case to "extraction" although a
\* later stage had been processed before
ApproveAfterLaterStageWitness ==
    /\ ApproveSucceeded
    /\ last_call.stage_name = "initial"
    /\ cases["c1"].current_stage = "extraction"
    /\ HasRow("c1", "validation")

PayloadText(stage_name, result) ==
    IF stage_name \in ConsolidatedNames THEN result.summary ELSE result.text

\* C3: the table never holds two rows for one (case, stage) pair, a pair has a
\* row exactly when some run produced a payload for it, and the row carries
\* the payload of the most recent such run.
OneRowWithLatestPayload ==
    \A c \in CaseIds : \A s \in Sequenced :
      /\ Len(Rows(c, s)) <= 1
      /\ HasRow(c, s) <=> latest[c][s].runs > 0
      /\ HasRow(c, s) => PayloadText(s, RowResult(c, s)) = latest[c][s].text

\* C3 witness: a pair was run at least twice, the later run with a text that
\* the earlier ones did not produce... the row holds the later text
RepeatedRunWitness ==
    \E s \in BackendNames :
      /\ latest["c1"][s].runs >= 2
      /\ Processed
      /\ last_call.stage_name = s
      /\ RowResult("c1", s).text = OkYes

\* C4 as stated: when a generation of a process_stage call on a known name
\* fails, the call returns a result instead of raising, the failed text is
\* persisted (in the row of the stage whose generation failed, or as the
\* summary of the group that was summarised), current_stage is set to the
\* processed name, and a failed validation is stored as not ready with
\* next_stage "validation".
FailedGenerationIsReported ==
    \A c \in CaseIds :
      ( /\ Processed
        /\ last_call.case_id = c
        /\ last_call.stage_name \in Sequenced )
      => /\ \A t \in DOMAIN last_call.gen :
              IsError(last_call.gen[t]) =>
                /\ ~ret.raised
                /\ HasRow(c, t)
                /\ RowResult(c, t).text = last_call.gen[t]
                /\ cases[c].current_stage = last_call.stage_name
                /\ t = "validation" =>
                     /\ RowResult(c, t).ready = FALSE
                     /\ RowResult(c, t).next_stage = "validation"
         /\ (IsError(last_call.summary_response) /\ ~ret.raised) =>
              \A g \in GroupWritten(last_call.stage_name) :
                /\ HasRow(c, g)
                /\ RowResult(c, g).summary = last_call.summary_response
                /\ cases[c].current_stage = last_call.stage_name

\* C5 as stated: process_stage with a name of neither sequence returns an
\* error and changes neither the table nor the case.
UnknownStageMutatesNothing ==
    [][(last_call'.op = "process" /\ last_call'.stage_name \notin Sequenced
          /\ last_call'.case_id \in CaseIds)
         => /\ "error" \in ret'.result.keys
            /\ stage_results' = stage_results
            /\ cases' = cases]_vars

\* C6 as stated: approving the last stage of either sequence returns next
\* stage "complete", sets current_stage to "complete" and sets the completion
\* flag.
ApprovingLastStageCompletes ==
    \A c \in CaseIds :
      ( /\ ApproveSucceeded
        /\ last_call.case_id = c
        /\ last_call.stage_name \in {"final_plan", "treatment_planning_group"} )
      => /\ ret.result.next_stage = "complete"
         /\ cases[c].current_stage = "complete"
         /\ cases[c].is_complete

\* C7: once the completion flag of a case is set, no call clears it.
CompletionIsOneWay ==
    [][\A c \in CaseIds : cases[c].is_complete => cases'[c].is_complete]_vars

\* C7 witness: the flag is set and the case was processed or approved again
\* afterwards under another name
CompleteThenCalledWitness ==
    /\ cases["c1"].is_complete
    /\ last_call.case_id = "c1"
    /\ last_call.stage_name # "treatment_planning_group"
    /\ HasRow("c1", last_call.stage_name)

\* C8: a row created by a call is unapproved unless that call approved it,
\* process_stage leaves the approved flag of every existing row as it was, and
\* a flag turns true only in the approve_stage call for that very pair.
ProcessingNeverApproves ==
    [][\A c \in CaseIds : \A s \in StageNames :
         /\ \A i \in DOMAIN stage_results'[c][s] :
              i \notin DOMAIN stage_results[c][s]
                => ~stage_results'[c][s][i].is_approved
         /\ \A i \in DOMAIN stage_results[c][s] :
              /\ i \in DOMAIN stage_results'[c][s]
              /\ last_call'.op = "process"
                   => stage_results'[c][s][i].is_approved = stage_results[c][s][i].is_approved
              /\ (stage_results'[c][s][i].is_approved /\ ~stage_results[c][s][i].is_approved)
                   => /\ last_call'.op = "approve"
                      /\ last_call'.case_id = c
                      /\ last_call'.stage_name = s]_vars

\* C8 witness: a stage that had been approved was processed again and its
\* row, now holding the new text, is still approved
ReprocessApprovedWitness ==
    /\ Processed
    /\ last_call.stage_name \in BackendNames
    /\ ~ret.raised
    /\ Rows("c1", last_call.stage_name)[1].is_approved
    /\ latest["c1"][last_call.stage_name].runs = 2

\* the name after a backend stage in the nine-stage order, "complete" after
\* the last
StaticSuccessor(stage_name) ==
    IF Index(backend_stage_sequence, stage_name) < Len(backend_stage_sequence)
    THEN backend_stage_sequence[Index(backend_stage_sequence, stage_name) + 1]
    ELSE "complete"

\* C9: a stored validation result is ready exactly when its text contains the
\* marker, points to "counterfactual" when ready and to "validation" when not;
\* every other backend result has no ready key and points to its static
\* successor whatever text it holds.
ValidationAloneIsConditional ==
    \A c \in CaseIds : \A s \in BackendNames :
      HasRow(c, s) =>
        IF s = "validation"
        THEN /\ "ready" \in RowResult(c, s).keys
             /\ RowResult(c, s).ready <=> Contains(RowResult(c, s).text, Marker)
             /\ RowResult(c, s).ready => RowResult(c, s).next_stage = "counterfactual"
             /\ ~RowResult(c, s).ready => RowResult(c, s).next_stage = "validation"
        ELSE /\ "ready" \notin RowResult(c, s).keys
             /\ RowResult(c, s).next_stage = StaticSuccessor(s)

\* C9 witness: validation was processed, the text held the marker, and the
\* returned result is ready with next stage "counterfactual"
ValidationReadyWitness ==
    /\ Processed
    /\ last_call.stage_name = "validation"
    /\ ~ret.raised
    /\ Contains(last_call.gen["validation"], Marker)
    /\ ret.result.ready
    /\ ret.result.next_stage = "counterfactual"
    /\ RowResult("c1", "validation") = ret.result

\* C10 as stated: after process_stage for a backend stage of a group, the
\* group's row holds an entry for every backend stage of the group that has a
\* result, equal to that stage's stored result, and a summary built from the
\* texts stored now.
RollupFollowsBackendStage ==
    \A c \in CaseIds :
      ( /\ Processed
        /\ last_call.case_id = c
        /\ last_call.stage_name \in BackendNames )
      => LET g == get_consolidated_stage(last_call.stage_name)
         IN  /\ HasRow(c, g)
             /\ \A t \in Range(backend_stage_mapping[g]) :
                  HasRow(c, t) =>
                    /\ t \in DOMAIN RowResult(c, g).backend_results
                    /\ RowResult(c, g).backend_results[t] = RowResult(c, t)
             /\ RowResult(c, g).summary = last_call.summary_response
             /\ RowResult(c, g).summary_of = SummaryInputs(stage_results, c, g)

\* C11 as stated: process_stage with a consolidated name runs the backend
\* stages of the group once each in the group's order, every stage reads for
\* its prompt the texts the earlier stages of this very call saved, and the
\* call ends with one group row holding one entry per backend stage and the
\* one summary, built from the texts of this call.
GroupRunsStagesThenOneSummary ==
    [][\A c \in CaseIds :
         ( /\ last_call'.op = "process"
           /\ last_call'.case_id = c
           /\ last_call'.stage_name \in ConsolidatedNames )
         => LET g == last_call'.stage_name
                stages == backend_stage_mapping[g]
                ev == GroupEvents(stage_results, c, stages, last_call'.input_text,
                                  last_call'.gen)
                produced(t) == ProducedText(t, last_call'.input_text, last_call'.gen,
                                            last_call'.summary_response)
            IN  /\ [i \in DOMAIN ev |-> ev[i].stage] = stages
                /\ \A i \in DOMAIN ev :
                     /\ ev[i].saved = produced(ev[i].stage)
                     /\ \A t \in PriorStages(ev[i].stage) :
                          (\E j \in 1..(i - 1) : stages[j] = t)
                            => ev[i].reads[t] = produced(t)
                /\ \A t \in Range(stages) :
                     /\ Len(stage_results'[c][t]) = 1
                     /\ stage_results'[c][t][1].result.text = produced(t)
                /\ ~ret'.raised
                /\ Len(stage_results'[c][g]) = 1
                /\ DOMAIN stage_results'[c][g][1].result.backend_results = Range(stages)
                /\ stage_results'[c][g][1].result.summary = last_call'.summary_response
                /\ \A t \in SummaryStages(g) :
                     stage_results'[c][g][1].result.summary_of[t] = produced(t)]_vars

\* the entries of one kind in the history of a call
Only(log, what) == SelectSeq(log, LAMBDA e : e.what = what)

\* the call in progress is one of op and has returned or raised
Done(op) == llm.op = op /\ llm.pc = "done"

\* every attempt the call can make meets a failing provider
PermanentlyFailing == llm.provider.fails > llm.max_retries

\* C12 as stated: against a provider that fails every attempt, invoke makes
\* exactly max_retries + 1 attempts, waits 2^k after the k-th failed attempt
\* for k < max_retries, does not wait after the last, and returns the error
\* result.
InvokeMakesAllAttempts ==
    (Done("invoke") /\ PermanentlyFailing)
      => /\ Len(Only(llm.log, "attempt")) = llm.max_retries + 1
         /\ Len(Only(llm.log, "wait")) = llm.max_retries
         /\ \A i \in DOMAIN llm.log :
              llm.log[i].what = "attempt" /\ llm.log[i].n < llm.max_retries
                => /\ i < Len(llm.log)
                   /\ llm.log[i + 1] = [what |-> "wait", n |-> 2 ^ llm.log[i].n]
         /\ llm.log[Len(llm.log)].what = "attempt"
         /\ llm.outcome = "error"

\* C12 amended: against a provider that fails every attempt, invoke returns
\* an error result and never raises; it numbers its attempts 0, 1, ... and
\* makes at most max_retries + 1 of them; every attempt but the one numbered
\* max_retries is followed by a wait of 2^k, k its number, and no wait
\* follows that last one; it makes all max_retries + 1 attempts exactly when
\* no check before an attempt finds the elapsed time above the timeout, and
\* otherwise stops at that check with the error result of the timeout.
InvokeAttemptsWithinBudget ==
    (Done("invoke") /\ PermanentlyFailing)
      => LET attempts == Only(llm.log, "attempt")
             waits == Only(llm.log, "wait")
             last == llm.log[Len(llm.log)]
         IN  /\ llm.outcome \in {"error", "timeout_error"}
             /\ Len(attempts) <= llm.max_retries + 1
             /\ \A k \in DOMAIN attempts : attempts[k].n = k - 1
             /\ \A i \in DOMAIN llm.log :
                  /\ (llm.log[i].what = "attempt" /\ llm.log[i].n < llm.max_retries)
                       => /\ i < Len(llm.log)
                          /\ llm.log[i + 1] = [what |-> "wait", n |-> 2 ^ llm.log[i].n]
                  /\ llm.log[i].what = "wait" => i > 1 /\ llm.log[i - 1].what = "attempt"
                  /\ llm.log[i].what = "timeout" => i = Len(llm.log)
             /\ llm.outcome = "error"
                  <=> (Len(attempts) = llm.max_retries + 1 /\ last.what = "attempt")
             /\ llm.outcome = "timeout_error"
                  <=> (last.what = "timeout" /\ Len(attempts) = Len(waits)
                         /\ llm.elapsed > llm.timeout)

\* C12 witness: three attempts against a failing provider with the waits 1
\* and 2 between them, and the error result returned
InvokeExhaustedWitness ==
    /\ Done("invoke")
    /\ PermanentlyFailing
    /\ llm.max_retries = 2
    /\ llm.outcome = "error"
    /\ [i \in DOMAIN llm.log |-> llm.log[i].what]
         = <<"attempt", "wait", "attempt", "wait", "attempt">>
    /\ llm.log[2].n = 1
    /\ llm.log[4].n = 2

\* C13 as stated: in invoke and in stream_generate, the check that finds the
\* elapsed time above the timeout ends the call there and then with the
\* timeout error: nothing is attempted and no wait is made after it.
TimeoutEndsTheCall ==
    llm.op \in {"invoke", "stream_generate"}
      => \A i \in DOMAIN llm.log :
           llm.log[i].what = "timeout"
             => /\ i = Len(llm.log)
                /\ llm.pc = "done"
                /\ llm.outcome \in {"timeout_error", "TimeoutError"}

\* C14 as stated: a stream_generate call whose provider delivers an increment
\* and then fails hands that increment to the consumer once, ends with the
\* provider's error and starts no further attempt.
MidStreamFailureIsTerminal ==
    (Done("stream_generate") /\ llm.provider.fails > 0 /\ llm.provider.partial = 1)
      => /\ Len(llm.yielded) = 1
         /\ Len(Only(llm.log, "task")) = 1
         /\ llm.outcome = "ProviderError"

\* C15 as stated: a batch generation of the stage executor, with chat history
\* or without, reports a provider failure as its result only after
\* max_retries + 1 attempts.
BatchGenerationRetriesToBudget ==
    \A chat_history \in BOOLEAN :
      (Done(GenerationPath(chat_history)) /\ llm.outcome = "error")
        => Len(Only(llm.log, "attempt")) = llm.max_retries + 1

\* C16 as stated: against a provider that fails every attempt, the time from
\* the start of an invoke or stream_generate call to its return or raise is
\* at most the timeout.
ElapsedWithinTimeout ==
    \A op \in {"invoke", "stream_generate"} :
      (Done(op) /\ PermanentlyFailing) => llm.elapsed <= llm.timeout

\* C17 as stated: the events of a finished stream_to_sse_events call are one
\* start, then chunks only, then one terminal event, which is end when the
\* provider completes the generation and error when it fails every attempt;
\* with max_retries = 0 and a provider failing before any output they are
\* start, error.
SseSequenceWellFormed ==
    Done("stream_to_sse_events")
      => LET n == Len(llm.events)
         IN  /\ n >= 2
             /\ llm.events[1] = "start"
             /\ \A i \in 2..(n - 1) : llm.events[i] = "chunk"
             /\ llm.events[n] \in {"end", "error"}
             /\ llm.provider.fails = 0 => llm.events[n] = "end"
             /\ PermanentlyFailing => llm.events[n] = "error"
             /\ (llm.max_retries = 0 /\ llm.provider.fails > 0 /\ llm.provider.partial = 0)
                  => llm.events = <<"start", "error">>

\* the contents of a list of chunks, one after the other
RECURSIVE Joined(_)
Joined(chunks) == IF chunks = <<>> THEN <<>> ELSE Head(chunks).content \o Joined(Tail(chunks))

\* the increment most recently delivered has been cut into chunks
Chunked == stream.pc = "streaming" /\ stream.increments > 0

\* C18 as stated: the contents of the chunks the chunker returns for a
\* fragment, joined in order, are the fragment, character for character.
ChunksReproduceFragment ==
    Chunked => Joined(stream.chunks) = stream.new_content

\* C19: the first chunk a generation yields has position 0, and every later
\* one, of the same increment or of a later one, has the position of the
\* chunk yielded before it plus that chunk's length, which is positive.
OffsetsAreGapless ==
    [][(stream'.pc = "streaming" /\ stream.pc = "streaming"
          /\ stream'.yielded = stream.yielded + 1)
         => /\ stream'.last.length > 0
            /\ stream'.last.position =
                 IF stream.yielded = 0 THEN 0
                 ELSE stream.last.position + stream.last.length]_vars

\* C19 witness: the second increment of a generation has yielded its second
\* chunk, after a first increment that yielded more than one character
SecondIncrementWitness ==
    /\ stream.pc = "streaming"
    /\ stream.increments = 2
    /\ Len(stream.chunks) >= 2
    /\ stream.last = Extent(stream.chunks[2])
    /\ Len(stream.pending) = Len(stream.chunks) - 2
    /\ stream.chunks[1].position >= 2
    /\ stream.yielded >= 3
    /\ stream.last.position = stream.chunks[1].position + stream.chunks[1].length

\* the text has a word running across the place where i characters are taken
EndsMidWord(text, i) ==
    /\ i >= 1
    /\ i < Len(text)
    /\ text[i] \notin Whitespace
    /\ text[i + 1] \notin Whitespace

\* C20 as stated: a chunk is marked as a word boundary exactly when it does
\* not end inside a word of the text being chunked, and a text that is not
\* empty gives at least one chunk, the last of them marked.
WordBoundaryFlagIsExact ==
    Chunked =>
      /\ \A i \in DOMAIN stream.chunks :
           stream.chunks[i].is_word_boundary
             <=> ~EndsMidWord(stream.new_content, stream.chunks[i].upto)
      /\ stream.new_content # <<>> =>
           /\ stream.chunks # <<>>
           /\ stream.chunks[Len(stream.chunks)].is_word_boundary

\* the text is one word: text.split(' ') has nothing to split at
OneWord(text) == text # <<>> /\ \A i \in DOMAIN text : text[i] # " "

\* C21 as stated: every chunk is cut at a space of the text or at its end; a
\* chunk is longer than max_size only when it is one word that is; a text
\* that is one word longer than max_size gives that word as its only chunk;
\* an empty text gives no chunks.
ChunkerNeverSplitsOrOverruns ==
    Chunked =>
      /\ \A i \in DOMAIN stream.chunks :
           LET chunk == stream.chunks[i]
           IN  /\ chunk.upto = Len(stream.new_content)
                    \/ stream.new_content[chunk.upto + 1] = " "
               /\ chunk.length > stream.chunk_size => OneWord(chunk.content)
      /\ (OneWord(stream.new_content) /\ Len(stream.new_content) > stream.chunk_size)
           => /\ Len(stream.chunks) = 1
              /\ stream.chunks[1].content = stream.new_content
      /\ stream.new_content = <<>> => stream.chunks = <<>>

\* the scenario text has just been cut with the scenario's max_size, at
\* running offset 0
ScenarioChunked ==
    /\ Chunked
    /\ stream.new_content = Scenario.text
    /\ stream.chunk_size = Scenario.max_size
    /\ stream.pending = stream.chunks
    /\ stream.position = 0

\* the one chunk of the scenario, but for its length
ScenarioChunk(length) ==
    <<[content |-> Scenario.text, position |-> 0, length |-> length,
       is_word_boundary |-> TRUE, upto |-> Len(Scenario.text)]>>

\* C26 as stated: chunking "Patient is stable" with max_size 100 at offset 0
\* gives exactly one chunk, the whole text, marked as a word boundary, at
\* position 0, of length 18.
ScenarioChunkHasLength18 ==
    ScenarioChunked => stream.chunks = ScenarioChunk(18)

\* C26 amended: the same, with the length 17, the number of characters of
\* the text.
ScenarioChunkHasLength17 ==
    ScenarioChunked => stream.chunks = ScenarioChunk(17)

\* C26 witness: the scenario text has been cut into chunks
ScenarioChunkedWitness ==
    ScenarioChunked /\ Len(stream.chunks) = 1

\* the name after a group in the consolidated order, "complete" after the last
GroupSuccessor(group) ==
    IF Index(stage_sequence, group) < Len(stage_sequence)
    THEN stage_sequence[Index(stage_sequence, group) + 1]
    ELSE "complete"

\* C28 as stated: the next_stage stored in a group's row is the group's
\* successor in the consolidated order, "complete" for the last group,
\* whether the row was written by processing the group or by processing one
\* of its backend stages.
GroupPointerIsPathIndependent ==
    \A c \in CaseIds : \A g \in ConsolidatedNames :
      (HasRow(c, g) /\ "next_stage" \in RowResult(c, g).keys)
        => RowResult(c, g).next_stage = GroupSuccessor(g)

\* the approved flags of all rows, as they are stored
ApprovedFlags(rows) ==
    [c \in CallIds |-> [s \in StageNames |->
       [i \in DOMAIN rows[c][s] |-> rows[c][s][i].is_approved]]]

\* C29: a row that is approved stays a row and stays approved through every
\* later call, a process_stage that overwrites its result included; and
\* approve_stage for a missing case or for a stage without a row returns an
\* error and leaves every approved flag and every current_stage as it was.
ApprovalIsSticky ==
    [][/\ \A c \in CaseIds : \A s \in StageNames :
            \A i \in DOMAIN stage_results[c][s] :
              stage_results[c][s][i].is_approved
                => /\ i \in DOMAIN stage_results'[c][s]
                   /\ stage_results'[c][s][i].is_approved
       /\ ( /\ last_call'.op = "approve"
            /\ \/ last_call'.case_id \notin CaseIds
               \/ stage_results[last_call'.case_id][last_call'.stage_name] = <<>> )
          => /\ "error" \in ret'.result.keys
             /\ "is_approved" \notin ret'.result.keys
             /\ ApprovedFlags(stage_results') = ApprovedFlags(stage_results)
             /\ \A c \in CaseIds :
                  cases'[c].current_stage = cases[c].current_stage]_vars

\* C29 witness: with one stage approved and the case moved on from it,
\* approve_stage was called for a stage that has no row and returned an error
RefusedApprovalWitness ==
    /\ last_call.op = "approve"
    /\ last_call.case_id = "c1"
    /\ ~HasRow("c1", last_call.stage_name)
    /\ "error" \in ret.result.keys
    /\ \E s \in BackendNames :
         /\ HasRow("c1", s)
         /\ Rows("c1", s)[1].is_approved
         /\ cases["c1"].current_stage = get_next_stage(s)

\* the last n elements of a sequence
LastOf(seq, n) == SubSeq(seq, Len(seq) - n + 1, Len(seq))

\* add_event is called from one thread and stream_events is not running
SoleProducer ==
    /\ sse.op = "stream_events"
    /\ sse.consumer = "off"
    /\ sse.callers \subseteq {"A"}

\* C22: with no consumer and one caller, the queue never holds more than
\* buffer_size events, add_event never gives up on the event it was passed,
\* and after N calls have returned the queue holds the last
\* min(N, buffer_size) events passed, in the order they were passed.
OverflowKeepsNewest ==
    SoleProducer =>
      /\ Len(sse.queue) <= sse.buffer_size
      /\ sse.lost = <<>>
      /\ sse.producer["A"].pc = "idle" =>
           sse.queue = LastOf(sse.added,
                              IF Len(sse.added) < sse.buffer_size
                              THEN Len(sse.added) ELSE sse.buffer_size)

\* C22 witness: three events were added to a queue of two places, and the
\* queue holds the second and the third, the first having been removed
OverflowWitness ==
    /\ SoleProducer
    /\ sse.buffer_size = 2
    /\ Len(sse.added) = 3
    /\ sse.producer["A"].pc = "idle"
    /\ sse.queue = <<sse.added[2], sse.added[3]>>
    /\ sse.discarded = <<sse.added[1]>>

\* C30 as stated: whatever the threads calling add_event and the loop of
\* stream_events do in between, add_event never gives up on the event it
\* was passed: the events it removes are taken from the head of the queue,
\* and when it has returned its event has been enqueued.
AddEventAlwaysEnqueues ==
    sse.op = "stream_events" =>
      /\ sse.lost = <<>>
      /\ Len(sse.queue) + Len(sse.taken) + Len(sse.discarded)
           + Cardinality({p \in Threads : sse.producer[p].pc # "idle"})
           = Len(sse.added)

\* the texts of a list of events, each as format_sse_data gives it
Formatted(events) == [i \in DOMAIN events |-> format_sse_data(events[i]).text]

\* the event's type is one of the eight known tags and json accepts its data
KnownAndSerializable(event) ==
    /\ event.event_type \in
         {"chunk", "start", "end", "error", "metadata", "heartbeat", "progress",
          "stage_complete"}
    /\ event.data # "object"

\* a text of an event the transport made itself: a heartbeat or a stream error
OwnText(text) == Len(text) >= 5 /\ text[4] = "id: " /\ text[5] = "auto"

NotOwnText(text) == ~OwnText(text)

\* C24: stream_sse_events yields, in the order of its list, the texts of
\* exactly the events of known type with serializable data, and goes on
\* after an event it skips; the loop of stream_events yields, in the order
\* it took them from the queue, the texts of exactly those events among the
\* ones it took, and goes on after each; a large payload is no reason to
\* skip.
ValidEventsDeliveredInOrder ==
    [][/\ sse'.op = "stream_sse_events" =>
            /\ sse'.out = Formatted(SelectSeq(sse'.events, KnownAndSerializable))
            /\ Len(sse'.events) > Len(sse.events) => sse'.pc = "running"
       /\ sse'.op = "stream_events" =>
            /\ SelectSeq(sse'.out, NotOwnText)
                 = Formatted(SelectSeq(sse'.taken, KnownAndSerializable))
            /\ Len(sse'.taken) > Len(sse.taken) => sse'.consumer = "top"]_vars

\* C24 witness: a list of a valid event, an event of unknown type and a
\* valid event with a large payload has been streamed, and two texts came out
SkippedInTheMiddleWitness ==
    /\ sse.op = "stream_sse_events"
    /\ Len(sse.events) = 3
    /\ KnownAndSerializable(sse.events[1])
    /\ sse.events[2].event_type = UnknownType
    /\ sse.events[3].data = "large content"
    /\ Len(sse.out) = 2
    /\ sse.log = <<"Skipping invalid SSE event">>

\* text.split("\n"), on a text given as its pieces
RECURSIVE LinesOf(_)
LinesOf(text) ==
    IF \A i \in DOMAIN text : text[i] # "\n" THEN <<text>>
    ELSE LET i == CHOOSE j \in DOMAIN text :
                    text[j] = "\n" /\ \A k \in 1..(j - 1) : text[k] # "\n"
         IN  <<SubSeq(text, 1, i - 1)>> \o LinesOf(SubSeq(text, i + 1, Len(text)))

\* the line starts with the field name
IsField(line, field) == line # <<>> /\ line[1] = field

\* the event has an id: one that is neither None nor the empty string
HasId(event) == event.id # <<>> /\ event.id # <<"">>

\* the text is the event on the wire: the type line, the id line when there
\* is an id, the retry line when there is a retry hint, one data line, and
\* the blank line that ends it
WireShape(event, text) ==
    LET lines == LinesOf(text)
        n == Len(lines)
        fields == SubSeq(lines, 1, n - 2)
        expected == <<"event: ">>
                      \o (IF HasId(event) THEN <<"id: ">> ELSE <<>>)
                      \o (IF event.retry # <<>> THEN <<"retry: ">> ELSE <<>>)
                      \o <<"data: ">>
    IN  /\ n >= 4
        /\ lines[n] = <<>>
        /\ lines[n - 1] = <<>>
        /\ text[Len(text)] = "\n"
        /\ text[Len(text) - 1] = "\n"
        /\ Len(fields) = Len(expected)
        /\ \A i \in DOMAIN fields : IsField(fields[i], expected[i])
        /\ fields[1] = <<"event: ", event.event_type>>
        /\ HasId(event) => fields[2] = <<"id: ", event.id[1]>>
        /\ event.retry # <<>> =>
             fields[Len(fields) - 1] = <<"retry: ", ToString(event.retry[1])>>
        /\ Len(fields[Len(fields)]) > 1

\* C25: every text format_sse_data returns has, in this order, the line of
\* the type, the line of the id exactly when the event has an id, the line
\* of the retry hint exactly when it has one, exactly one data line, and a
\* blank line, so that it ends with two newlines.
EncodedEventHasWireShape ==
    sse.op = "stream_sse_events" =>
      LET valid == SelectSeq(sse.events, validate_sse_event)
      IN  /\ Len(sse.out) = Len(valid)
          /\ \A i \in DOMAIN sse.out : WireShape(valid[i], sse.out[i])

\* C25 witness: an event without id and retry hint was encoded in four
\* lines, and one with both in six
BareAndFullEventWitness ==
    /\ sse.op = "stream_sse_events"
    /\ Len(sse.events) = 2
    /\ sse.events[1].id = <<>> /\ sse.events[1].retry = <<>>
    /\ sse.events[2].id = <<"e1">> /\ sse.events[2].retry = <<5000>>
    /\ Len(sse.out) = 2
    /\ Len(LinesOf(sse.out[1])) = 4
    /\ Len(LinesOf(sse.out[2])) = 6

\* json accepts the event's data
Serializable(event) == event.data # "object"

\* C27 as stated: the endpoint's event_generator drops and logs an event
\* whose data cannot be serialized and goes on: the texts it yields are
\* those of the serializable events of the stage's stream, in order, with
\* no error event in their place, and the stream does not end at such an
\* event.
EndpointDropsUnserializable ==
    [][sse'.op = "event_generator" =>
         /\ sse'.out = Formatted(SelectSeq(sse'.events, Serializable))
         /\ Len(sse'.log) = Len(sse'.events) - Len(sse'.out)
         /\ Len(sse'.events) > Len(sse.events) => sse'.pc = "running"]_vars

\* the step is a pass of the loop of stream_events run to its sleep: one
\* that found the queue empty, or one that took an event
PassStep ==
    /\ sse.op = "stream_events"
    /\ sse'.op = "stream_events"
    /\ sse'.consumer = "top"
    /\ \/ Len(sse'.taken) > Len(sse.taken)
       \/ /\ sse.consumer = "top"
          /\ sse.is_active /\ sse'.is_active
          /\ sse.queue = <<>> /\ sse'.queue = <<>>
          /\ sse'.producer = sse.producer
          /\ sse'.added = sse.added

\* the step yielded a heartbeat
HeartbeatSent ==
    /\ Len(sse'.out) > Len(sse.out)
    /\ sse'.out[Len(sse'.out)][2] = "heartbeat"

\* when the loop last yielded anything, a heartbeat or, up to and including
\* this step, an event; the time of construction before that
LastEmission ==
    IF sse'.emitted_at # <<>> /\ sse'.emitted_at[1] > sse.last_heartbeat
    THEN sse'.emitted_at[1] ELSE sse.last_heartbeat

====
